---------------------------- MODULE Spec2Model ----------------------------
(***************************************************************************)
(* Risk & Pattern Analysis Engine of inteldove-backend                     *)
(* (src/app/ai_services.py, called from src/app/main.py).                  *)
(*                                                                         *)
(* Python floats are modelled by exact rationals [n, d] in lowest terms.   *)
(* Every weight, threshold and factor of the source is a decimal with one  *)
(* digit after the point; the comparisons the source makes (>= 75, >= 50,  *)
(* >= 25, > 0.7) are never within rounding distance of a value the code    *)
(* can compute, so the exact comparison and the float comparison agree.    *)
(*                                                                         *)
(* A nullable Python value is a sequence of length <= 1: None is << >>,    *)
(* a present value v is <<v>>.  A str is a sequence of one-character       *)
(* strings.  A dict is a function whose DOMAIN is its key set.             *)
(***************************************************************************)
EXTENDS Integers, Sequences, FiniteSets, TLC

VARIABLES
    pc,               \* "call": arguments bound, body not run; "awaiting": at
                      \* an await; "return": returned or raised
    assessment_data,  \* argument of calculate_lethality_score (a dict)
    lethality_ret,    \* its return value: None before the return
    current_case,     \* argument of find_pattern_matches
    all_cases,        \* argument of find_pattern_matches (a list of Case)
    matches_ret,      \* its return value: None before the return
    case1,            \* the case behind features1 of a comparison of two cases
    case2,            \* the case behind features2
    similarity_ret,   \* return of _calculate_similarity: None before the return
    factors_ret,      \* return of _identify_matching_factors: None before it
    request,          \* a POST /ai/analyze request and the rows it finds
    openai_calls,     \* calls of chat.completions.create made for the request
    response,         \* what the call gave: None before it ends
    analysis_ret,     \* return of analyze_suspect_profile / _victim_vulnerability
    profiles,         \* the rows of the profiles table
    http_ret,         \* what run_ai_analysis returned or raised: None before
    ai_service,       \* the global of main.py: None or the instance made
    calls,            \* the concurrent calls on the service, by call id
    totals,           \* the total_score of each call frame
    lethality_request,         \* a POST /lethality-assessment request
    db_cases,                  \* the rows of the cases table, by id
    db_lethality_assessments,  \* the rows of the lethality_assessments table
    assessment_ret    \* what create_lethality_assessment returned or raised

\* the variables of a comparison of two cases
simVars == <<case1, case2, similarity_ret, factors_ret>>

\* the variables of a POST /ai/analyze request
analysisVars ==
    <<request, openai_calls, response, analysis_ret, profiles, http_ret>>

\* the variables of concurrent calls on the shared service
concurrentVars == <<ai_service, calls, totals>>

\* the variables of POST /lethality-assessment requests
assessVars ==
    <<lethality_request, db_cases, db_lethality_assessments, assessment_ret>>

vars ==
    <<pc, assessment_data, lethality_ret, current_case, all_cases, matches_ret,
      simVars, analysisVars, concurrentVars, assessVars>>

(***************************************************************************)
(* Python values                                                           *)
(***************************************************************************)
None == << >>

Some(v) == <<v>>

\* no POST /ai/analyze request is under way
AnalysisIdle ==
    /\ request = None
    /\ openai_calls = 0
    /\ response = None
    /\ analysis_ret = None
    /\ profiles = << >>
    /\ http_ret = None

\* no concurrent calls are under way
ConcurrentIdle == ai_service = None /\ calls = << >> /\ totals = << >>

\* no POST /lethality-assessment request was made
AssessIdle ==
    /\ lethality_request = None
    /\ db_cases = << >>
    /\ db_lethality_assessments = << >>
    /\ assessment_ret = None

\* no comparison of two cases is under way
SimIdle ==
    case1 = None /\ case2 = None /\ similarity_ret = None /\ factors_ret = None

\* Python's abs() on an int
IAbs(i) == IF i < 0 THEN -i ELSE i

RECURSIVE GCD(_, _)
GCD(a, b) == IF b = 0 THEN a ELSE GCD(b, a % b)

\* the float n/d, kept in lowest terms with d > 0
R(n, d) ==
    LET g == GCD(IAbs(n), IAbs(d))
        s == IF d < 0 THEN -1 ELSE 1
    IN  [n |-> s * (n \div g), d |-> s * (d \div g)]

RAdd(a, b) == R(a.n * b.d + b.n * a.d, a.d * b.d)

RSub(a, b) == R(a.n * b.d - b.n * a.d, a.d * b.d)

RMul(a, b) == R(a.n * b.n, a.d * b.d)

\* a / b for b # 0 (the callers guard the division as the source does)
RDiv(a, b) == R(a.n * b.d, a.d * b.n)

RAbs(a) == [n |-> IAbs(a.n), d |-> a.d]

\* a < b, compared over the least common denominator
RLt(a, b) ==
    LET g == GCD(a.d, b.d)
    IN  a.n * (b.d \div g) < b.n * (a.d \div g)

RGt(a, b) == RLt(b, a)

RGe(a, b) == ~RLt(a, b)

RLe(a, b) == ~RLt(b, a)

RMax(a, b) == IF RLt(a, b) THEN b ELSE a

RMin(a, b) == IF RLt(b, a) THEN b ELSE a

\* dict.get(key, True): a missing key read as present
DictGetDefaultTrue(dict, key, default) ==
    IF key \in DOMAIN dict THEN dict[key] ELSE TRUE

\* dict.get(key, default)
DictGet(dict, key, default) ==
    IF key \in DOMAIN dict THEN dict[key] ELSE default

(***************************************************************************)
(* RiskLevel (models.py) and calculate_lethality_score (ai_services.py)    *)
(***************************************************************************)
RiskLevel == {"low", "moderate", "high", "extreme"}

\* The weight table, in the dict's insertion order.  The weights are written
\* in tenths (2.5 is 25), so that the sums of the source are integer sums;
\* total_score and max_possible are in tenths too, and their quotient, the
\* only use the source makes of them, does not depend on the unit.
risk_factors ==
    << <<"increased_frequency",  20>>,
       <<"increased_severity",   25>>,
       <<"threats_to_kill",      40>>,
       <<"weapon_threats",       35>>,
       <<"firearm_access",       45>>,
       <<"forced_sex",           20>>,
       <<"drug_alcohol_abuse",   15>>,
       <<"controlling_behavior", 20>>,
       <<"jealousy",             15>>,
       <<"separation_threats",   30>>,
       <<"unemployment",         10>>,
       <<"stalking",             30>>,
       <<"children_threatened",  25>>,
       <<"suicide_threats",      20>>,
       <<"prior_police_calls",   15>> >>

\* the 15 keys of risk_factors
Indicators == {risk_factors[i][1] : i \in DOMAIN risk_factors}

\* sum(risk_factors.values()): the first i weights added left to right
RECURSIVE SumValues(_)
SumValues(i) ==
    IF i = 0 THEN 0 ELSE SumValues(i - 1) + risk_factors[i][2]

\* len(risk_factors) written for sum(risk_factors.values())
max_possible_len == 10 * Len(risk_factors)

max_possible == SumValues(Len(risk_factors))

\* the loop with "total_score = weight" written for "total_score += weight"
RECURSIVE total_score_assign(_, _)
total_score_assign(data, i) ==
    IF i = 0 THEN 0
    ELSE IF DictGet(data, risk_factors[i][1], FALSE)
         THEN risk_factors[i][2]
         ELSE total_score_assign(data, i - 1)

\* the loop of lines 134-136 after its first i iterations
RECURSIVE total_score(_, _)
total_score(data, i) ==
    IF i = 0 THEN 0
    ELSE IF DictGet(data, risk_factors[i][1], FALSE)
         THEN total_score(data, i - 1) + risk_factors[i][2]
         ELSE total_score(data, i - 1)

\* the if/elif chain with the comparisons made strict
risk_level_of_strict(normalized_score) ==
    IF RGt(normalized_score, R(75, 1)) THEN "extreme"
    ELSE IF RGt(normalized_score, R(50, 1)) THEN "high"
    ELSE IF RGt(normalized_score, R(25, 1)) THEN "moderate"
    ELSE "low"

\* the if/elif chain of lines 140-147
risk_level_of(normalized_score) ==
    IF RGe(normalized_score, R(75, 1)) THEN "extreme"
    ELSE IF RGe(normalized_score, R(50, 1)) THEN "high"
    ELSE IF RGe(normalized_score, R(25, 1)) THEN "moderate"
    ELSE "low"

\* line 138 with the division by max_possible forgotten
normalized_score_unscaled(total) == RMul(R(total, 10), R(100, 1))

\* line 138: (total_score / max_possible) * 100
normalized_score_of(total) == RMul(R(total, max_possible), R(100, 1))

calculate_lethality_score(data) ==
    LET normalized_score ==
            normalized_score_of(total_score(data, Len(risk_factors)))
    IN  [normalized_score |-> normalized_score,
         risk_level       |-> risk_level_of(normalized_score)]

(***************************************************************************)
(* Calls of calculate_lethality_score.  The argument is drawn from:        *)
(*   - every subset of the 15 indicators set to True (and nothing else);   *)
(*   - dicts that also hold indicators explicitly False and keys outside   *)
(*     the vocabulary, within the bounds below.                            *)
(***************************************************************************)
MaxTrueKeys == 1

MaxFalseKeys == 1

\* keys outside the vocabulary; keys are case-sensitive, so "Stalking" is one
UnknownKeys == {"Stalking"}

\* the dict with the keys of T True, the keys of F False, and the entries of u
MakeDict(T, F, u) ==
    [k \in T \cup F \cup DOMAIN u |->
        IF k \in T THEN TRUE ELSE IF k \in F THEN FALSE ELSE u[k]]

\* the subsets of S with at most n elements
RECURSIVE SubsetsUpTo(_, _)
SubsetsUpTo(S, n) ==
    IF n = 0 THEN {{}}
    ELSE LET smaller == SubsetsUpTo(S, n - 1)
         IN  smaller \cup {X \cup {x} : X \in smaller, x \in S}

\* the entries a dict can hold under keys outside the vocabulary
UnknownEntries ==
    UNION {[U -> BOOLEAN] : U \in SUBSET UnknownKeys}

\* the keys of the vocabulary the dict holds with a true value
TrueIndicators(data) == {k \in DOMAIN data \cap Indicators : data[k]}

NoCase == None

InitLethality ==
    /\ pc = "call"
    /\ \E T \in SUBSET Indicators :
          \/ assessment_data = MakeDict(T, {}, << >>)
          \/ /\ Cardinality(T) <= MaxTrueKeys
             /\ \E F \in SubsetsUpTo(Indicators \ T, MaxFalseKeys) :
                   \E u \in UnknownEntries :
                       assessment_data = MakeDict(T, F, u)
    /\ lethality_ret = None
    /\ current_case = NoCase
    /\ all_cases = << >>
    /\ matches_ret = None
    /\ SimIdle
    /\ AnalysisIdle
    /\ ConcurrentIdle
    /\ AssessIdle

\* one call of calculate_lethality_score, from entry to return
CalculateLethalityScore ==
    /\ pc = "call"
    /\ lethality_ret' = Some(calculate_lethality_score(assessment_data))
    /\ pc' = "return"
    /\ UNCHANGED <<assessment_data, current_case, all_cases, matches_ret, simVars,
                   analysisVars, concurrentVars,
                   assessVars>>

NextLethality == CalculateLethalityScore

SpecLethality == InitLethality /\ [][NextLethality]_vars

(***************************************************************************)
(* Properties of calculate_lethality_score, under SpecLethality            *)
(***************************************************************************)
Returned == pc = "return" /\ lethality_ret # None

Score == lethality_ret[1].normalized_score

Level == lethality_ret[1].risk_level

\* the dict of the indicator set A: exactly the keys of A, each True
DictOf(A) == MakeDict(A, {}, << >>)

\* the dict holds indicators only, each True: it is DictOf of its key set
IsTrueOnly(data) ==
    DOMAIN data \subseteq Indicators /\ \A k \in DOMAIN data : data[k]

\* C3: for every subset of the 15 indicators set to true, the normalized
\* score returned by calculate_lethality_score lies in [0, 100].
C3_ScoreInRange ==
    Returned => RGe(Score, R(0, 1)) /\ RLe(Score, R(100, 1))

C3_Witness ==
    /\ Returned
    /\ IsTrueOnly(assessment_data)
    /\ RGt(Score, R(0, 1)) /\ RLt(Score, R(100, 1))

\* C4: the score is monotonically non-decreasing in the indicator set: the
\* score returned for the set A is at most the score of A with any one more
\* indicator set to true (and so, <= being transitive, of every superset B
\* of A, which is A with the indicators of B \ A added one at a time).
C4_Monotone ==
    (Returned /\ IsTrueOnly(assessment_data)) =>
        \A k \in Indicators \ DOMAIN assessment_data :
            RLe(Score,
                calculate_lethality_score(
                    DictOf(DOMAIN assessment_data \cup {k})).normalized_score)

C4_Witness ==
    /\ Returned
    /\ IsTrueOnly(assessment_data)
    /\ DOMAIN assessment_data # {}
    /\ \E k \in Indicators \ DOMAIN assessment_data :
          RLt(Score,
              calculate_lethality_score(
                  DictOf(DOMAIN assessment_data \cup {k})).normalized_score)

\* C5: the level returned is decided by the normalized score with inclusive
\* lower thresholds: >= 75 extreme, [50, 75) high, [25, 50) moderate, < 25
\* low; a score of exactly 25, 50, 75 is moderate, high, extreme.
C5_Thresholds ==
    /\ Returned =>
         /\ RGe(Score, R(75, 1)) => Level = "extreme"
         /\ (RGe(Score, R(50, 1)) /\ RLt(Score, R(75, 1))) => Level = "high"
         /\ (RGe(Score, R(25, 1)) /\ RLt(Score, R(50, 1))) => Level = "moderate"
         /\ RLt(Score, R(25, 1)) => Level = "low"
    /\ risk_level_of(R(25, 1)) = "moderate"
    /\ risk_level_of(R(50, 1)) = "high"
    /\ risk_level_of(R(75, 1)) = "extreme"

C5_Witness ==
    /\ Returned
    /\ Level = "high"
    /\ RGe(Score, R(50, 1)) /\ RLt(Score, R(75, 1))

\* C6: the empty indicator set scores 0 with level low; the set of all 15
\* indicators scores 100 with level extreme.
C6_Extremes ==
    Returned =>
        /\ assessment_data = DictOf({}) =>
              (Score = R(0, 1) /\ Level = "low")
        /\ assessment_data = DictOf(Indicators) =>
              (Score = R(100, 1) /\ Level = "extreme")

C6_Witness == Returned /\ assessment_data = DictOf(Indicators)

\* C7 as claimed: with exactly threats_to_kill and firearm_access true, the
\* summed weight is 8.5 of the fixed denominator 34.5, the normalized score
\* is 8.5/34.5*100 (24.64 to two decimals, strictly below 25), the level low.
C7_Scenario_Claimed ==
    (Returned /\ assessment_data = DictOf({"threats_to_kill", "firearm_access"})) =>
        /\ total_score(assessment_data, Len(risk_factors)) = 85
        /\ max_possible = 345
        /\ Score = RMul(R(85, 345), R(100, 1))
        /\ RGe(Score, R(24635, 1000)) /\ RLt(Score, R(24645, 1000))
        /\ RLt(Score, R(25, 1))
        /\ Level = "low"

\* C7, amended: with exactly threats_to_kill and firearm_access true, the
\* summed weight is 8.5 of the fixed denominator 36.5 (the sum of the 15
\* weights), the normalized score is 8.5/36.5*100 (23.29 to two decimals,
\* strictly below 25), the level low.
C7_Scenario ==
    (Returned /\ assessment_data = DictOf({"threats_to_kill", "firearm_access"})) =>
        /\ total_score(assessment_data, Len(risk_factors)) = 85
        /\ max_possible = 365
        /\ Score = RMul(R(85, 365), R(100, 1))
        /\ RGe(Score, R(23285, 1000)) /\ RLt(Score, R(23295, 1000))
        /\ RLt(Score, R(25, 1))
        /\ Level = "low"

C7_Witness ==
    Returned /\ assessment_data = DictOf({"threats_to_kill", "firearm_access"})

\* C8: keys outside the 15-indicator vocabulary do not change the result,
\* and an indicator missing from the dict contributes exactly as if it
\* were present with the value False.
C8_UnknownAndMissing ==
    Returned =>
        /\ \A k \in Indicators \ DOMAIN assessment_data :
              calculate_lethality_score(
                  [x \in DOMAIN assessment_data \cup {k} |->
                      IF x = k THEN FALSE ELSE assessment_data[x]])
              = lethality_ret[1]
        /\ \A u \in UnknownKeys \ DOMAIN assessment_data : \A b \in BOOLEAN :
              calculate_lethality_score(
                  [x \in DOMAIN assessment_data \cup {u} |->
                      IF x = u THEN b ELSE assessment_data[x]])
              = lethality_ret[1]
        /\ calculate_lethality_score(
              [x \in DOMAIN assessment_data \cap Indicators |-> assessment_data[x]])
           = lethality_ret[1]

C8_Witness ==
    /\ Returned
    /\ \E u \in UnknownKeys \cap DOMAIN assessment_data : assessment_data[u]
    /\ \E k \in Indicators \cap DOMAIN assessment_data : ~assessment_data[k]
    /\ TrueIndicators(assessment_data) # {}
    /\ Indicators \ DOMAIN assessment_data # {}

(***************************************************************************)
(* str methods used by _calculate_similarity                               *)
(***************************************************************************)
\* the ASCII letters str.lower() changes
LowerOf ==
    [A |-> "a", B |-> "b", C |-> "c", D |-> "d", E |-> "e", F |-> "f",
     G |-> "g", H |-> "h", I |-> "i", J |-> "j", K |-> "k", L |-> "l",
     M |-> "m", N |-> "n", O |-> "o", P |-> "p", Q |-> "q", R |-> "r",
     S |-> "s", T |-> "t", U |-> "u", V |-> "v", W |-> "w", X |-> "x",
     Y |-> "y", Z |-> "z"]

\* the text left as it is, letter case kept
StrKeepCase(s) == s

\* str.lower()
StrLower(s) ==
    [i \in DOMAIN s |-> IF s[i] \in DOMAIN LowerOf THEN LowerOf[s[i]] ELSE s[i]]

\* the characters str.split() splits on
Whitespace == {" ", "\t", "\n"}

\* str.split() of s[i..], cur being the token read so far
RECURSIVE SplitFrom(_, _, _)
SplitFrom(s, i, cur) ==
    IF i > Len(s)
    THEN IF cur = << >> THEN << >> ELSE <<cur>>
    ELSE IF s[i] \in Whitespace
         THEN IF cur = << >>
              THEN SplitFrom(s, i + 1, << >>)
              ELSE <<cur>> \o SplitFrom(s, i + 1, << >>)
         ELSE SplitFrom(s, i + 1, Append(cur, s[i]))

\* str.split(): the maximal runs of non-whitespace characters, in order
StrSplit(s) == SplitFrom(s, 1, << >>)

\* set(list)
SetOf(list) == {list[i] : i \in DOMAIN list}

(***************************************************************************)
(* CaseType, Case (models.py) and the matcher (ai_services.py)             *)
(***************************************************************************)
CaseType ==
    {"dv_homicide", "murder_suicide", "attempted_homicide", "missing",
     "threat_assessment"}

\* a function's return: a value, or an exception that propagates
Ret(v) == [val |-> v]

Raise(e) == [exc |-> e]

Raised(r) == "exc" \in DOMAIN r

_extract_case_features(case) ==
    [case_type        |-> IF case.case_type # None THEN case.case_type[1] ELSE "",
     location_state   |-> IF case.location_state # None /\ case.location_state[1] # ""
                          THEN case.location_state[1] ELSE "",
     description_text |-> IF case.description # None /\ case.description[1] # << >>
                          THEN case.description[1] ELSE << >>,
     risk_score       |-> IF case.risk_score # None /\ case.risk_score[1] # R(0, 1)
                          THEN case.risk_score[1] ELSE R(0, 1),
     has_suspects     |-> IF case.suspects # << >> THEN Len(case.suspects) > 0 ELSE FALSE,
     has_victims      |-> IF case.victims # << >> THEN Len(case.victims) > 0 ELSE FALSE]

\* lines 193-205 with line 202 taking the difference without abs()
CategoricalAndRisk_signed(features1, features2) ==
    LET s1 == IF features1.case_type = features2.case_type
              THEN R(3, 10) ELSE R(0, 1)
        s2 == IF features1.location_state = features2.location_state
              THEN RAdd(s1, R(2, 10)) ELSE s1
    IN  IF features1.risk_score # R(0, 1) /\ features2.risk_score # R(0, 1)
        THEN LET risk_diff == RSub(features1.risk_score, features2.risk_score)
                 risk_similarity ==
                     RMax(R(0, 1), RSub(R(1, 1), RDiv(risk_diff, R(100, 1))))
             IN  RAdd(s2, RMul(risk_similarity, R(3, 10)))
        ELSE s2

\* lines 193-205: the case_type, location_state and risk_score contributions
CategoricalAndRisk(features1, features2) ==
    LET s1 == IF features1.case_type = features2.case_type
              THEN R(3, 10) ELSE R(0, 1)
        s2 == IF features1.location_state = features2.location_state
              THEN RAdd(s1, R(2, 10)) ELSE s1
    IN  IF features1.risk_score # R(0, 1) /\ features2.risk_score # R(0, 1)
        THEN LET risk_diff == RAbs(RSub(features1.risk_score, features2.risk_score))
                 risk_similarity ==
                     RMax(R(0, 1), RSub(R(1, 1), RDiv(risk_diff, R(100, 1))))
             IN  RAdd(s2, RMul(risk_similarity, R(3, 10)))
        ELSE s2

\* line 215: similarity_score / total_factors if total_factors > 0 else 0
Averaged(similarity_score, total_factors) ==
    IF total_factors > 0
    THEN RDiv(similarity_score, R(total_factors, 1))
    ELSE R(0, 1)

\* lines 210-212, words1 and words2 being text1.split() and text2.split():
\* Raise("ZeroDivisionError") from line 211 when neither text holds a token
TextAdded(similarity_score, words1, words2) ==
    LET longest == IF Len(words1) > Len(words2) THEN Len(words1) ELSE Len(words2)
    IN  IF longest = 0
        THEN Raise("ZeroDivisionError")
        ELSE LET common_words == SetOf(words1) \cap SetOf(words2)
                 text_similarity == R(Cardinality(common_words), longest)
             IN  Ret(RAdd(similarity_score, RMul(text_similarity, R(2, 10))))

\* lines 207-213, text1 and text2 being the lower-cased descriptions
TextPart(similarity_score, text1, text2) ==
    IF text1 # << >> /\ text2 # << >>
    THEN TextAdded(similarity_score, StrSplit(text1), StrSplit(text2))
    ELSE Ret(similarity_score)

\* line 215 applied to the sum, unless line 211 raised
AveragedOver(summed, total_factors) ==
    IF Raised(summed) THEN summed ELSE Ret(Averaged(summed.val, total_factors))

\* Returns Ret(score), or Raise("ZeroDivisionError") from line 211 when both
\* texts are non-empty and neither holds a token.  total_factors is
\* incremented once after each of the four comparisons, whatever they gave.
_calculate_similarity(features1, features2) ==
    AveragedOver(TextPart(CategoricalAndRisk(features1, features2),
                          StrLower(features1.description_text),
                          StrLower(features2.description_text)),
                 4)

\* line 225 with <= 20 in place of < 20
_identify_matching_factors_within(features1, features2) ==
    (IF features1.case_type = features2.case_type THEN <<"case_type">> ELSE << >>)
    \o (IF features1.location_state = features2.location_state
        THEN <<"location">> ELSE << >>)
    \o (IF RLe(RAbs(RSub(features1.risk_score, features2.risk_score)), R(20, 1))
        THEN <<"risk_level">> ELSE << >>)

_identify_matching_factors(features1, features2) ==
    (IF features1.case_type = features2.case_type THEN <<"case_type">> ELSE << >>)
    \o (IF features1.location_state = features2.location_state
        THEN <<"location">> ELSE << >>)
    \o (IF RLt(RAbs(RSub(features1.risk_score, features2.risk_score)), R(20, 1))
        THEN <<"risk_level">> ELSE << >>)

\* line 167 with the comparison turned round
above_threshold_flipped(similarity) == RLt(similarity, R(7, 10))

\* line 167: similarity > 0.7
above_threshold(similarity) == RGt(similarity, R(7, 10))

\* the dict of lines 168-173 with matching_factors left empty
match_entry_no_factors(current_features, case, case_features, similarity) ==
    [case_id          |-> case.id,
     case_number      |-> case.case_number,
     similarity_score |-> similarity,
     matching_factors |-> << >>]

\* lines 168-173: the dict appended for a retained case
match_entry(current_features, case, case_features, similarity) ==
    [case_id          |-> case.id,
     case_number      |-> case.case_number,
     similarity_score |-> similarity,
     matching_factors |-> _identify_matching_factors(current_features, case_features)]

\* lines 167-173: the entry appended when the similarity is above the
\* threshold; an exception of line 165 propagates
Retained(current_features, case, case_features, similarity) ==
    IF Raised(similarity) THEN similarity
    ELSE IF above_threshold(similarity.val)
    THEN Ret(<<match_entry(current_features, case, case_features, similarity.val)>>)
    ELSE Ret(<< >>)

\* lines 164-173
Compared(current_features, case, case_features) ==
    Retained(current_features, case, case_features,
             _calculate_similarity(current_features, case_features))

\* the entry of a case whatever its similarity
Kept(current_features, case, case_features, similarity) ==
    IF Raised(similarity) THEN similarity
    ELSE Ret(<<match_entry(current_features, case, case_features, similarity.val)>>)

\* the loop body with the guard of line 161 appending the target's own
\* entry where the source skips it
match_step_self_kept(current, current_features, case) ==
    IF case.id = current.id
    THEN Kept(current_features, case, _extract_case_features(case),
              _calculate_similarity(current_features, _extract_case_features(case)))
    ELSE Compared(current_features, case, _extract_case_features(case))

\* lines 160-173, one iteration: Ret(<< >>) when the case is skipped or not
\* retained, Ret(<<entry>>) when it is appended, Raise(e) when line 165 raises
match_step(current, current_features, case) ==
    IF case.id = current.id
    THEN Ret(<< >>)
    ELSE Compared(current_features, case, _extract_case_features(case))

\* matches after one more iteration that did not raise
Appended(before, step) ==
    IF Raised(step) THEN step ELSE Ret(before.val \o step.val)

\* lines 159-173: matches after the first i iterations, or the exception
\* that ended the loop
RECURSIVE match_loop(_, _, _, _)
match_loop(current, current_features, cases, i) ==
    IF i = 0 THEN Ret(<< >>)
    ELSE LET before == match_loop(current, current_features, cases, i - 1)
         IN  IF Raised(before) THEN before
             ELSE Appended(before, match_step(current, current_features, cases[i]))

\* list.insert keeping a descending list descending, e placed after every
\* element whose key is >= its own (the order sorted() gives equal keys)
InsertDesc(sorted, e) ==
    LET n == Cardinality({j \in DOMAIN sorted :
                 RGe(sorted[j].similarity_score, e.similarity_score)})
    IN  SubSeq(sorted, 1, n) \o <<e>> \o SubSeq(sorted, n + 1, Len(sorted))

\* sorted(matches, key=similarity_score, reverse=True) of the first i entries
RECURSIVE SortedDesc(_, _)
SortedDesc(list, i) ==
    IF i = 0 THEN << >> ELSE InsertDesc(SortedDesc(list, i - 1), list[i])

\* list[:n]
Take(list, n) == SubSeq(list, 1, IF Len(list) < n THEN Len(list) ELSE n)

\* line 175 applied to the matches, unless the loop raised
SortedTopTen(looped) ==
    IF Raised(looped) THEN looped
    ELSE Ret(Take(SortedDesc(looped.val, Len(looped.val)), 10))

find_pattern_matches(current, cases) ==
    IF cases = << >>
    THEN Ret(<< >>)
    ELSE SortedTopTen(match_loop(current, _extract_case_features(current),
                                 cases, Len(cases)))

(***************************************************************************)
(* Calls of find_pattern_matches.  The target and the candidates are drawn *)
(* from a pool of cases: the two cases of the spec's scenario, a case with *)
(* every nullable field null, cases whose description is whitespace only,  *)
(* a copy of the target under another id, and a case that differs from the *)
(* target in letter case and punctuation only.                             *)
(***************************************************************************)
MaxCandidates == 3

Case(id, type, state, risk, text) ==
    [id |-> id, case_number |-> id, case_type |-> type, location_state |-> state,
     risk_score |-> risk, description |-> text, suspects |-> << >>, victims |-> << >>]

\* 'history of stalking and firearm threats'
TextTarget ==
    <<"h", "i", "s", "t", "o", "r", "y", " ", "o", "f", " ", "s", "t", "a",
      "l", "k", "i", "n", "g", " ", "a", "n", "d", " ", "f", "i", "r", "e",
      "a", "r", "m", " ", "t", "h", "r", "e", "a", "t", "s">>

\* 'stalking and firearm threats documented'
TextCandidate ==
    <<"s", "t", "a", "l", "k", "i", "n", "g", " ", "a", "n", "d", " ", "f",
      "i", "r", "e", "a", "r", "m", " ", "t", "h", "r", "e", "a", "t", "s",
      " ", "d", "o", "c", "u", "m", "e", "n", "t", "e", "d">>

\* 'History Of STALKING and firearm threats.'
TextShouted ==
    <<"H", "i", "s", "t", "o", "r", "y", " ", "O", "f", " ", "S", "T", "A",
      "L", "K", "I", "N", "G", " ", "a", "n", "d", " ", "f", "i", "r", "e",
      "a", "r", "m", " ", "t", "h", "r", "e", "a", "t", "s", ".">>

ScenarioTarget ==
    Case(1, Some("dv_homicide"), Some("CA"), Some(R(80, 1)), Some(TextTarget))

ScenarioCandidate ==
    Case(2, Some("dv_homicide"), Some("CA"), Some(R(85, 1)), Some(TextCandidate))

CasePool ==
    { ScenarioTarget,
      ScenarioCandidate,
      Case(3, Some("dv_homicide"), Some("CA"), Some(R(80, 1)), Some(TextTarget)),
      Case(4, None, None, None, None),
      Case(5, Some("missing"), Some("NY"), Some(R(0, 1)), Some(<<" ", " ">>)),
      Case(6, Some("missing"), Some(""), Some(R(1700, 73)), Some(<<"\t">>)),
      Case(7, Some("dv_homicide"), Some("CA"), Some(R(80, 1)), Some(TextShouted)) }

InitMatch ==
    /\ pc = "call"
    /\ current_case \in CasePool
    /\ \E n \in 0..MaxCandidates : all_cases \in [1..n -> CasePool]
    /\ matches_ret = None
    /\ assessment_data = << >>
    /\ lethality_ret = None
    /\ SimIdle
    /\ AnalysisIdle
    /\ ConcurrentIdle
    /\ AssessIdle

\* one call of find_pattern_matches, from entry to return or raise
FindPatternMatches ==
    /\ pc = "call"
    /\ matches_ret' = Some(find_pattern_matches(current_case, all_cases))
    /\ pc' = "return"
    /\ UNCHANGED <<assessment_data, lethality_ret, current_case, all_cases, simVars,
                   analysisVars, concurrentVars,
                   assessVars>>

NextMatch == FindPatternMatches

SpecMatch == InitMatch /\ [][NextMatch]_vars

(***************************************************************************)
(* Properties of find_pattern_matches, under SpecMatch                     *)
(***************************************************************************)
\* the call returned a list (it did not raise)
MatchesReturned ==
    pc = "return" /\ matches_ret # None /\ ~Raised(matches_ret[1])

Matches == matches_ret[1].val

\* the similarity of the target and the i-th candidate
SimilarityTo(i) ==
    _calculate_similarity(_extract_case_features(current_case),
                          _extract_case_features(all_cases[i]))

C2_Scenario ==
    (/\ pc = "return"
     /\ current_case = ScenarioTarget
     /\ all_cases = <<ScenarioCandidate>>) =>
        /\ MatchesReturned
        /\ RGt(SimilarityTo(1).val, R(7, 10))
        /\ \E j \in DOMAIN Matches :
              /\ Matches[j].case_id = ScenarioCandidate.id
              /\ RGt(Matches[j].similarity_score, R(7, 10))
              /\ {"case_type", "location", "risk_level"}
                    \subseteq SetOf(Matches[j].matching_factors)

RetainedPositions ==
    {i \in DOMAIN all_cases :
        /\ all_cases[i].id # current_case.id
        /\ RGt(SimilarityTo(i).val, R(7, 10))}

\* result is the first 10 of the candidates at the positions retained, in
\* descending order of similarity_score, equal scores in list order
IsTopTenOf(result, retained) ==
    /\ Len(result) = (IF Cardinality(retained) < 10 THEN Cardinality(retained) ELSE 10)
    /\ \E f \in [DOMAIN result -> retained] :
          /\ \A j \in DOMAIN result :
                /\ result[j].case_id = all_cases[f[j]].id
                /\ result[j].similarity_score = SimilarityTo(f[j]).val
          /\ \A j, k \in DOMAIN result :
                j < k =>
                  /\ f[j] # f[k]
                  /\ RGe(result[j].similarity_score, result[k].similarity_score)
                  /\ result[j].similarity_score = result[k].similarity_score
                        => f[j] < f[k]
          /\ \A i \in retained \ {f[j] : j \in DOMAIN result} :
                \A j \in DOMAIN result :
                    RLe(SimilarityTo(i).val, result[j].similarity_score)

C11_NeverRaises ==
    pc = "return" => matches_ret # None /\ ~Raised(matches_ret[1])

\* a case's risk_score, a null one counted as 0
RiskOr0(case) == IF case.risk_score = None THEN R(0, 1) ELSE case.risk_score[1]

\* the candidate has the target's case_type and location_state and a
\* risk_score less than 20 points from the target's
SameTypeStateRisk(target, candidate) ==
    /\ candidate.case_type = target.case_type
    /\ candidate.location_state = target.location_state
    /\ RLt(RAbs(RSub(RiskOr0(candidate), RiskOr0(target))), R(20, 1))

\* the entry lines 168-173 build for the i-th candidate
EntryOf(i) ==
    match_entry(_extract_case_features(current_case), all_cases[i],
                _extract_case_features(all_cases[i]), SimilarityTo(i).val)

C20_CappedAndEmpty ==
    pc = "return" =>
        /\ \A i \in DOMAIN all_cases :
              /\ ~Raised(SimilarityTo(i))
              /\ RLe(SimilarityTo(i).val, R(1, 4))
        /\ matches_ret = Some(Ret(<< >>))

(***************************************************************************)
(* Comparisons of two cases: _calculate_similarity and                     *)
(* _identify_matching_factors applied to the feature vectors of a pair of  *)
(* cases.  The pairs are drawn in two families: every combination of       *)
(* case_type, location_state and risk_score with a few descriptions, and   *)
(* every pair of descriptions with a few combinations of the other fields. *)
(* risk_score is an unconstrained Float column (models.py 63): 250 stands  *)
(* for a value outside the 0-100 range calculate_lethality_score gives.    *)
(***************************************************************************)
MaxTextLen == 2

TextAlphabet == {"a", "A", " ", "."}

\* every description of at most MaxTextLen characters
ShortTexts == UNION {[1..n -> TextAlphabet] : n \in 0..MaxTextLen}

\* descriptions of several tokens: a repeated token, punctuation standing
\* alone, tabs and newlines between tokens, and the texts of the scenario
LongTexts ==
    { <<"a", " ", "a">>,
      <<"a", " ", ".">>,
      <<".", "\t", "A", "\n", "a">>,
      TextTarget, TextCandidate, TextShouted }

Descriptions == {None} \cup {Some(t) : t \in ShortTexts \cup LongTexts}

FewDescriptions == {None, Some(<<"a">>)}

Types == {None, Some("dv_homicide"), Some("missing")}

States == {None, Some(""), Some("CA")}

Risks == {None} \cup {Some(R(k, 1)) : k \in {0, 10, 25, 30, 250}}

\* no call of calculate_lethality_score is under way
LethalityIdle == assessment_data = << >> /\ lethality_ret = None

\* no call of find_pattern_matches is under way
MatchIdle == current_case = NoCase /\ all_cases = << >> /\ matches_ret = None

InitSim ==
    /\ pc = "call"
    /\ \/ \E t1, t2 \in Types, s1, s2 \in States, r1, r2 \in Risks,
             d1, d2 \in FewDescriptions :
             /\ case1 = Case(1, t1, s1, r1, d1)
             /\ case2 = Case(2, t2, s2, r2, d2)
       \/ \E d1, d2 \in Descriptions :
             \/ /\ case1 = Case(1, ScenarioTarget.case_type,
                                ScenarioTarget.location_state,
                                ScenarioTarget.risk_score, d1)
                /\ case2 = Case(2, ScenarioCandidate.case_type,
                                ScenarioCandidate.location_state,
                                ScenarioCandidate.risk_score, d2)
             \/ /\ case1 = Case(1, None, None, None, d1)
                /\ case2 = Case(2, None, None, None, d2)
    /\ similarity_ret = None
    /\ factors_ret = None
    /\ LethalityIdle
    /\ MatchIdle
    /\ AnalysisIdle
    /\ ConcurrentIdle
    /\ AssessIdle

\* one call of _calculate_similarity on the features of the two cases (as
\* line 165 calls it), from entry to return or raise
CalculateSimilarity ==
    /\ pc = "call"
    /\ case1 # None
    /\ similarity_ret = None
    /\ similarity_ret' = Some(_calculate_similarity(_extract_case_features(case1),
                                                    _extract_case_features(case2)))
    /\ pc' = IF factors_ret # None THEN "return" ELSE "call"
    /\ UNCHANGED <<assessment_data, lethality_ret, current_case, all_cases,
                   matches_ret, case1, case2, factors_ret, analysisVars, concurrentVars,
                   assessVars>>

\* one call of _identify_matching_factors on the same features (as line 172
\* calls it), from entry to return
IdentifyMatchingFactors ==
    /\ pc = "call"
    /\ case1 # None
    /\ factors_ret = None
    /\ factors_ret' = Some(_identify_matching_factors(_extract_case_features(case1),
                                                      _extract_case_features(case2)))
    /\ pc' = IF similarity_ret # None THEN "return" ELSE "call"
    /\ UNCHANGED <<assessment_data, lethality_ret, current_case, all_cases,
                   matches_ret, case1, case2, similarity_ret, analysisVars, concurrentVars,
                   assessVars>>

NextSim == CalculateSimilarity \/ IdentifyMatchingFactors

SpecSim == InitSim /\ [][NextSim]_vars

(***************************************************************************)
(* Properties of the comparison of two cases, under SpecSim                *)
(***************************************************************************)
\* _calculate_similarity returned a score (it did not raise)
SimilarityReturned == similarity_ret # None /\ ~Raised(similarity_ret[1])

Similarity == similarity_ret[1].val

\* C12: for every pair of case feature vectors _calculate_similarity gives
\* a number in the closed interval [0, 1].
C12_UnitInterval ==
    similarity_ret # None =>
        /\ ~Raised(similarity_ret[1])
        /\ RGe(Similarity, R(0, 1))
        /\ RLe(Similarity, R(1, 1))

\* a nullable string, null counted as the empty string
StrOr(x) == IF x = None THEN "" ELSE x[1]

\* the case has a non-null, non-empty description
HasText(case) == case.description # None /\ case.description[1] # << >>

\* s[i..j] is a whitespace-split piece of s: a run of characters none of
\* which is whitespace, with whitespace or an end of s on either side
IsPiece(s, i, j) ==
    /\ i <= j
    /\ \A k \in i..j : s[k] \notin Whitespace
    /\ i = 1 \/ s[i - 1] \in Whitespace
    /\ j = Len(s) \/ s[j + 1] \in Whitespace

Pieces(s) == {ij \in (1..Len(s)) \X (1..Len(s)) : IsPiece(s, ij[1], ij[2])}

\* one piece with each upper-case letter replaced by its lower-case letter
LoweredPiece(s, ij) ==
    [k \in 1..(ij[2] - ij[1] + 1) |->
        LET c == s[ij[1] + k - 1]
        IN  IF c \in DOMAIN LowerOf THEN LowerOf[c] ELSE c]

\* the tokens of a description, as a set
TokenSet(s) == {LoweredPiece(s, ij) : ij \in Pieces(s)}

\* the larger of the token counts of the two descriptions
MaxTokenCount(a, b) ==
    LET na == Cardinality(Pieces(a.description[1]))
        nb == Cardinality(Pieces(b.description[1]))
    IN  IF na > nb THEN na ELSE nb

TypeTerm(a, b) ==
    IF StrOr(a.case_type) = StrOr(b.case_type) THEN R(3, 10) ELSE R(0, 1)

LocationTerm(a, b) ==
    IF StrOr(a.location_state) = StrOr(b.location_state) THEN R(2, 10) ELSE R(0, 1)

RiskTerm(a, b) ==
    IF /\ a.risk_score # None /\ a.risk_score[1] # R(0, 1)
       /\ b.risk_score # None /\ b.risk_score[1] # R(0, 1)
    THEN RMul(R(3, 10),
              RMax(R(0, 1),
                   RSub(R(1, 1),
                        RDiv(RAbs(RSub(a.risk_score[1], b.risk_score[1])),
                             R(100, 1)))))
    ELSE R(0, 1)

TextTerm(a, b) ==
    IF HasText(a) /\ HasText(b)
    THEN RMul(R(2, 10),
              R(Cardinality(TokenSet(a.description[1]) \cap TokenSet(b.description[1])),
                MaxTokenCount(a, b)))
    ELSE R(0, 1)

\* the text term is a quotient: it has a value unless both descriptions are
\* non-empty and neither holds a token
TextTermDefined(a, b) == HasText(a) /\ HasText(b) => MaxTokenCount(a, b) > 0

\* C18: the blended similarity equals (type + location + risk + text) / 4,
\* the divisor being 4 whatever terms are zero, where type is 0.3 for equal
\* case types, location 0.2 for equal states, risk 0.3 * max(0, 1 - |a-b|/100)
\* when both risk scores are non-null and non-zero, text
\* 0.2 * |common tokens| / max(token counts) when both descriptions are
\* non-empty, and every other term is 0; tokens are the whitespace-split
\* pieces of the lower-cased description, punctuation kept.  The call
\* returns that value whenever the text term has one.
C18_BlendedFormula ==
    (similarity_ret # None /\ TextTermDefined(case1, case2)) =>
        similarity_ret[1] =
            Ret(RDiv(RAdd(RAdd(TypeTerm(case1, case2), LocationTerm(case1, case2)),
                          RAdd(RiskTerm(case1, case2), TextTerm(case1, case2))),
                     R(4, 1)))

\* two descriptions of several tokens that differ in letter case and in a
\* trailing full stop, on cases of equal type and state with non-zero scores
C18_Witness ==
    /\ SimilarityReturned
    /\ case1.description = Some(TextShouted)
    /\ case2.description = Some(TextTarget)
    /\ case1.case_type = case2.case_type
    /\ RiskTerm(case1, case2) = R(57, 200)
    /\ TextTerm(case1, case2) = R(1, 6)

\* C19: for every pair of cases matching_factors is a subset of
\* {case_type, location, risk_level}, without repetition, that holds
\* case_type exactly when the case types are equal, location exactly when
\* the states are equal (null counted as the empty string), and risk_level
\* exactly when the absolute difference of the risk scores (null counted as
\* 0) is strictly less than 20.
C19_MatchingFactors ==
    factors_ret # None =>
        LET factors == SetOf(factors_ret[1])
        IN  /\ factors \subseteq {"case_type", "location", "risk_level"}
            /\ Cardinality(factors) = Len(factors_ret[1])
            /\ "case_type" \in factors
                  <=> StrOr(case1.case_type) = StrOr(case2.case_type)
            /\ "location" \in factors
                  <=> StrOr(case1.location_state) = StrOr(case2.location_state)
            /\ "risk_level" \in factors
                  <=> RLt(RAbs(RSub(RiskOr0(case1), RiskOr0(case2))), R(20, 1))

\* risk scores exactly 20 apart, a null state against an empty one, a null
\* type against a present one
C19_Witness ==
    /\ factors_ret = Some(<<"location">>)
    /\ RAbs(RSub(RiskOr0(case1), RiskOr0(case2))) = R(20, 1)
    /\ case1.location_state = None
    /\ case2.location_state = Some("")
    /\ case1.case_type = None
    /\ case2.case_type # None

\* C23: similarity and matching factors are symmetric: the outcome of
\* _calculate_similarity (its score, or the exception it raises) and the
\* list _identify_matching_factors returns are the same when the two feature
\* vectors are passed in the other order.
C23_Symmetric ==
    /\ similarity_ret # None =>
           similarity_ret[1] = _calculate_similarity(_extract_case_features(case2),
                                                     _extract_case_features(case1))
    /\ factors_ret # None =>
           factors_ret[1] = _identify_matching_factors(_extract_case_features(case2),
                                                       _extract_case_features(case1))

\* both calls returned on two cases that differ in risk score and in
\* description, the descriptions holding two and three tokens, two in common
C23_Witness ==
    /\ pc = "return"
    /\ SimilarityReturned
    /\ factors_ret # None
    /\ case1.risk_score # case2.risk_score
    /\ RiskTerm(case1, case2) # R(0, 1)
    /\ case1.description = Some(<<"a", " ", ".">>)
    /\ case2.description = Some(<<".", "\t", "A", "\n", "a">>)
    /\ TextTerm(case1, case2) = R(2, 15)

(***************************************************************************)
(* Profile analysis: analyze_suspect_profile, analyze_victim_vulnerability *)
(* and their fallback estimators (ai_services.py), called by               *)
(* run_ai_analysis (main.py).  The dict an analysis returns is a function  *)
(* from its keys; the other values json.loads can give carry their Python  *)
(* type.  The chat-completion client is outside the repository: its call   *)
(* either raises or gives a response, whose content is any text.           *)
(***************************************************************************)
\* Python values other than the dict of an analysis; the value under
\* psychological_profile or vulnerability_profile, which run_ai_analysis
\* stores as it is, carries its type too
PyDict(items) == [type |-> "dict", items |-> items]

PyList(items) == [type |-> "list", items |-> items]

PyStr(value) == [type |-> "str", value |-> value]

PyNumber(value) == [type |-> "number", value |-> value]

PyNone == [type |-> "NoneType"]

\* truthiness of a nullable bool
IsTrue(x) == x # None /\ x[1]

\* truthiness of a nullable str
NonEmpty(x) == x # None /\ x[1] # ""

\* lines 261 and 294: prior_dv_reports and prior_dv_reports > 2
ManyReports(x) == x # None /\ x[1] # 0 /\ x[1] > 2

_get_risk_factors(suspect) ==
    (IF IsTrue(suspect.firearm_access) THEN <<"Firearm access">> ELSE << >>)
    \o (IF IsTrue(suspect.substance_abuse) THEN <<"Substance abuse">> ELSE << >>)
    \o (IF NonEmpty(suspect.criminal_history) THEN <<"Criminal history">> ELSE << >>)
    \o (IF NonEmpty(suspect.mental_health_history)
        THEN <<"Mental health concerns">> ELSE << >>)

_get_victim_risk_factors(victim) ==
    (IF IsTrue(victim.financial_dependence)
     THEN <<"Financial dependence">> ELSE << >>)
    \o (IF IsTrue(victim.children_involved) THEN <<"Children involved">> ELSE << >>)
    \o (IF victim.isolation_level = Some("high")
        THEN <<"Social isolation">> ELSE << >>)
    \o (IF ManyReports(victim.prior_dv_reports)
        THEN <<"Multiple prior reports">> ELSE << >>)

\* the estimate returned as it is, without the cap
lethality_risk_uncapped(score) == score

\* lines 248 and 270: min(10, score)
lethality_risk_of(score) == RMin(R(10, 1), score)

\* score += amount if condition (lines 234-241, 257-262)
Plus(score, condition, amount) == IF condition THEN RAdd(score, amount) ELSE score

\* lines 232-241
suspect_risk_score(suspect) ==
    Plus(Plus(Plus(Plus(R(5, 1),
                        IsTrue(suspect.firearm_access), R(2, 1)),
                   IsTrue(suspect.substance_abuse), R(15, 10)),
              NonEmpty(suspect.criminal_history), R(1, 1)),
         NonEmpty(suspect.mental_health_history), R(1, 1))

\* lines 243-251, risk_score being the sum of lines 232-241
suspect_fallback(suspect, risk_score) ==
    [psychological_profile |-> PyStr("Basic risk assessment based on available factors"),
     behavioral_patterns   |-> IF RGt(risk_score, R(6, 1))
                               THEN <<"Control", "Escalation">>
                               ELSE <<"Moderate risk">>,
     risk_factors          |-> _get_risk_factors(suspect),
     warning_signs         |-> IF IsTrue(suspect.firearm_access)
                                  \/ IsTrue(suspect.substance_abuse)
                               THEN <<"Firearm access", "Substance abuse">>
                               ELSE << >>,
     lethality_risk        |-> lethality_risk_of(risk_score),
     recommendations       |-> IF RGt(risk_score, R(7, 1))
                               THEN <<"Immediate safety planning",
                                      "Law enforcement notification">>
                               ELSE <<"Safety planning", "Monitoring">>,
     confidence_score      |-> R(6, 10)]

_generate_fallback_suspect_analysis(suspect) ==
    suspect_fallback(suspect, suspect_risk_score(suspect))

\* lines 255-262
victim_vulnerability_score(victim) ==
    Plus(Plus(Plus(R(3, 1),
                   IsTrue(victim.financial_dependence), R(2, 1)),
              IsTrue(victim.children_involved), R(15, 10)),
         ManyReports(victim.prior_dv_reports), R(15, 10))

\* lines 264-272, vulnerability_score being the sum of lines 255-262
victim_fallback(victim, vulnerability_score) ==
    [vulnerability_profile  |-> PyStr("Basic vulnerability assessment"),
     trauma_indicators      |-> IF RGt(vulnerability_score, R(5, 1))
                                THEN <<"Financial dependence", "Multiple reports">>
                                ELSE << >>,
     risk_factors           |-> _get_victim_risk_factors(victim),
     protective_factors     |-> IF victim.isolation_level # Some("high")
                                THEN <<"Support system">> ELSE << >>,
     safety_recommendations |-> <<"Safety planning", "Resource connection",
                                  "Legal advocacy">>,
     lethality_risk         |-> lethality_risk_of(vulnerability_score),
     confidence_score       |-> R(6, 10)]

_generate_fallback_victim_analysis(victim) ==
    victim_fallback(victim, victim_vulnerability_score(victim))

\* a reply of the shape the prompt of lines 42-48 asks for
SuspectJson ==
    "{\"psychological_profile\": \"Coercive control\", \"behavioral_patterns\": [\"Isolation\"], \"risk_factors\": [\"Firearm access\"], \"warning_signs\": [\"Threats\"], \"lethality_risk\": 8, \"recommendations\": [\"Safety planning\"]}"

\* a reply of the shape the prompt of lines 87-93 asks for
VictimJson ==
    "{\"vulnerability_profile\": \"Isolated\", \"trauma_indicators\": [\"Fear\"], \"risk_factors\": [\"Children involved\"], \"protective_factors\": [], \"safety_recommendations\": [\"Shelter\"], \"lethality_risk\": 6}"

\* a reply with the keys asked for whose psychological_profile is an object
SuspectNestedJson ==
    "{\"psychological_profile\": {\"traits\": [\"Controlling\"]}, \"behavioral_patterns\": [\"Isolation\"], \"risk_factors\": [\"Firearm access\"], \"warning_signs\": [\"Threats\"], \"lethality_risk\": 8, \"recommendations\": [\"Safety planning\"]}"

\* a reply with the keys asked for whose vulnerability_profile is a list
VictimNestedJson ==
    "{\"vulnerability_profile\": [\"Isolated\"], \"trauma_indicators\": [\"Fear\"], \"risk_factors\": [\"Children involved\"], \"protective_factors\": [], \"safety_recommendations\": [\"Shelter\"], \"lethality_risk\": 6}"

\* the texts a reply can hold: nothing, prose, JSON that is no object,
\* objects of another shape, objects of the shape asked for, objects with
\* the keys asked for and a profile that is no text
Contents ==
    { "", "I cannot help with that request.",
      "null", "42", "\"high risk\"", "[\"Control\"]",
      "{}", "{\"error\": \"rate limited\"}", "{\"confidence_score\": 0.99}",
      SuspectJson, VictimJson, SuspectNestedJson, VictimNestedJson }

\* json.loads on those texts
json_loads(content) ==
    CASE content = "null" -> Ret(PyNone)
      [] content = "42" -> Ret(PyNumber(R(42, 1)))
      [] content = "\"high risk\"" -> Ret(PyStr("high risk"))
      [] content = "[\"Control\"]" -> Ret(PyList(<<"Control">>))
      [] content = "{}" -> Ret(PyDict(<< >>))
      [] content = "{\"error\": \"rate limited\"}" ->
            Ret(PyDict([error |-> "rate limited"]))
      [] content = "{\"confidence_score\": 0.99}" ->
            Ret(PyDict([confidence_score |-> R(99, 100)]))
      [] content = SuspectJson ->
            Ret(PyDict([psychological_profile |-> PyStr("Coercive control"),
                        behavioral_patterns   |-> <<"Isolation">>,
                        risk_factors          |-> <<"Firearm access">>,
                        warning_signs         |-> <<"Threats">>,
                        lethality_risk        |-> R(8, 1),
                        recommendations       |-> <<"Safety planning">>]))
      [] content = VictimJson ->
            Ret(PyDict([vulnerability_profile  |-> PyStr("Isolated"),
                        trauma_indicators      |-> <<"Fear">>,
                        risk_factors           |-> <<"Children involved">>,
                        protective_factors     |-> << >>,
                        safety_recommendations |-> <<"Shelter">>,
                        lethality_risk         |-> R(6, 1)]))
      [] content = SuspectNestedJson ->
            Ret(PyDict([psychological_profile |->
                            PyDict([traits |-> <<"Controlling">>]),
                        behavioral_patterns   |-> <<"Isolation">>,
                        risk_factors          |-> <<"Firearm access">>,
                        warning_signs         |-> <<"Threats">>,
                        lethality_risk        |-> R(8, 1),
                        recommendations       |-> <<"Safety planning">>]))
      [] content = VictimNestedJson ->
            Ret(PyDict([vulnerability_profile  |-> PyList(<<"Isolated">>),
                        trauma_indicators      |-> <<"Fear">>,
                        risk_factors           |-> <<"Children involved">>,
                        protective_factors     |-> << >>,
                        safety_recommendations |-> <<"Shelter">>,
                        lethality_risk         |-> R(6, 1)]))
      [] OTHER -> Raise("JSONDecodeError")

\* what awaiting chat.completions.create can give: an exception, a response
\* without choices, a response whose first choice has no content, or one
\* whose content is a text
Responses ==
    {Raise("APIError"), Ret([choices |-> << >>])}
    \cup {Ret([choices |-> <<[content |-> c]>>]) :
             c \in {None} \cup {Some(t) : t \in Contents}}

\* lines 58 and 103: json.loads(response.choices[0].message.content)
loaded(resp) ==
    IF Raised(resp) THEN resp
    ELSE IF resp.val.choices = << >> THEN Raise("IndexError")
    ELSE IF resp.val.choices[1].content = None THEN Raise("TypeError")
    ELSE json_loads(resp.val.choices[1].content[1])

\* lines 59 and 104: analysis["confidence_score"] = confidence
with_confidence(analysis, confidence) ==
    IF Raised(analysis) THEN analysis
    ELSE IF analysis.val.type = "dict"
    THEN Ret([k \in DOMAIN analysis.val.items \cup {"confidence_score"} |->
                 IF k = "confidence_score" THEN confidence
                 ELSE analysis.val.items[k]])
    ELSE Raise("TypeError")

\* lines 62-63 and 107-108: except Exception returns the fallback
or_fallback(attempted, fallback) ==
    IF Raised(attempted) THEN Ret(fallback) ELSE attempted

\* lines 51-63, resp being what the awaited call gave
analyze_suspect_profile(suspect, resp) ==
    or_fallback(with_confidence(loaded(resp), R(85, 100)),
                _generate_fallback_suspect_analysis(suspect))

\* lines 96-108
analyze_victim_vulnerability(victim, resp) ==
    or_fallback(with_confidence(loaded(resp), R(82, 100)),
                _generate_fallback_victim_analysis(victim))

(***************************************************************************)
(* POST /ai/analyze (main.py, run_ai_analysis).  The request names a case  *)
(* and an analysis type; person is the first suspect or victim row of the  *)
(* case (None when the case has none).  The handler runs up to the awaited *)
(* call of the chat-completion client, and from its outcome to the return. *)
(***************************************************************************)
MaxPriorReports == 3

NullableBool == {None, Some(TRUE), Some(FALSE)}

Suspects ==
    [firearm_access        : NullableBool,
     substance_abuse       : NullableBool,
     criminal_history      : {None, Some(""), Some("prior assault")},
     mental_health_history : {None, Some(""), Some("depression")}]

Victims ==
    [financial_dependence : NullableBool,
     children_involved    : NullableBool,
     isolation_level      : {None, Some("high"), Some("low")},
     prior_dv_reports     : {None} \cup {Some(n) : n \in 0..MaxPriorReports}]

AnalysisTypes == {"suspect_profile", "victim_profile", "risk_assessment"}

\* the first row the handler would query for the analysis type, if any
PersonsOf(analysis_type) ==
    {None} \cup
    (IF analysis_type = "suspect_profile" THEN {Some(p) : p \in Suspects}
     ELSE IF analysis_type = "victim_profile" THEN {Some(p) : p \in Victims}
     ELSE {})

HTTPException(status_code) == [status_code |-> status_code]

\* lines 262-263, 267-268, 286-287, 303-304: the exception the handler
\* raises before any analysis, None when the request is accepted
rejection(req) ==
    IF ~req.case_found THEN Some(HTTPException(404))
    ELSE IF req.analysis_type \in {"suspect_profile", "victim_profile"}
    THEN IF req.person = None THEN Some(HTTPException(400)) ELSE None
    ELSE Some(HTTPException(400))

\* chat.completions.create called twice where lines 52 and 97 call it once
create_invoked_twice(made) == made + 2

\* lines 52-56 and 97-101: one call of chat.completions.create
create_invoked(made) == made + 1

\* lines 270 and 289: the analysis the service returns for the request
analysis_of(req, resp) ==
    IF req.analysis_type = "suspect_profile"
    THEN analyze_suspect_profile(req.person[1], resp)
    ELSE analyze_victim_vulnerability(req.person[1], resp)

\* str(value): a str holding the repr of value
StrOf(value) == [repr |-> value]

\* lines 272-281 and 291-300
Profile(req, analysis) ==
    IF req.analysis_type = "suspect_profile"
    THEN [case_id               |-> req.case_id,
          profile_type          |-> "suspect",
          psychological_profile |-> DictGet(analysis, "psychological_profile", PyStr("")),
          behavioral_patterns   |-> StrOf(DictGet(analysis, "behavioral_patterns", << >>)),
          risk_factors          |-> StrOf(DictGet(analysis, "risk_factors", << >>)),
          warning_signs         |-> StrOf(DictGet(analysis, "warning_signs", << >>)),
          recommendations       |-> StrOf(DictGet(analysis, "recommendations", << >>)),
          confidence_score      |-> DictGet(analysis, "confidence_score", R(0, 1))]
    ELSE [case_id               |-> req.case_id,
          profile_type          |-> "victim",
          psychological_profile |-> DictGet(analysis, "vulnerability_profile", PyStr("")),
          behavioral_patterns   |-> StrOf(DictGet(analysis, "trauma_indicators", << >>)),
          risk_factors          |-> StrOf(DictGet(analysis, "risk_factors", << >>)),
          warning_signs         |-> StrOf(DictGet(analysis, "protective_factors", << >>)),
          recommendations       |-> StrOf(DictGet(analysis, "safety_recommendations", << >>)),
          confidence_score      |-> DictGet(analysis, "confidence_score", R(0, 1))]

\* lines 308-313
analysis_response(req, analysis) ==
    [analysis_type    |-> req.analysis_type,
     results          |-> analysis,
     confidence_score |-> DictGet(analysis, "confidence_score", R(0, 1)),
     recommendations  |-> DictGet(analysis, "recommendations", << >>)]

\* sqlite3 binds None, int, float, str and bytes to a statement; the other
\* columns of the row are given a str, an int or a float by lines 272-300
binds(row) == row.psychological_profile.type \in {"str", "number", "NoneType"}

\* lines 282, 301 and 306: db.add(profile) and db.commit() on the SQLite
\* database of database.py; the INSERT of a row that does not bind raises
\* and leaves the table as it was
commit(table, row) ==
    IF binds(row) THEN Ret(Append(table, row)) ELSE Raise("ProgrammingError")

InitAnalyze ==
    /\ pc = "call"
    /\ \E found \in BOOLEAN, type \in AnalysisTypes :
          \E person \in PersonsOf(type) :
              request = Some([case_id       |-> 1,
                              case_found    |-> found,
                              analysis_type |-> type,
                              person        |-> person])
    /\ openai_calls = 0
    /\ response = None
    /\ analysis_ret = None
    /\ profiles = << >>
    /\ http_ret = None
    /\ LethalityIdle
    /\ MatchIdle
    /\ SimIdle
    /\ ConcurrentIdle
    /\ AssessIdle

\* run_ai_analysis from its entry to the HTTPException it raises, or to
\* the awaited call of chat.completions.create inside analyze_*
RunAiAnalysis ==
    /\ pc = "call"
    /\ request # None
    /\ IF rejection(request[1]) # None
       THEN /\ http_ret' = Some(Raise(rejection(request[1])[1]))
            /\ pc' = "return"
            /\ UNCHANGED openai_calls
       ELSE /\ openai_calls' = create_invoked(openai_calls)
            /\ pc' = "awaiting"
            /\ UNCHANGED http_ret
    /\ UNCHANGED <<request, response, analysis_ret, profiles>>
    /\ UNCHANGED <<assessment_data, lethality_ret, current_case, all_cases,
                   matches_ret, simVars, concurrentVars,
                   assessVars>>

\* lines 272-313, analysis being what analyze_* returned: the table after
\* the commit and what the handler returns, or the exception of the commit
\* that it lets propagate
stored_and_returned(req, analysis, table) ==
    IF Raised(commit(table, Profile(req, analysis)))
    THEN [table |-> table, ret |-> commit(table, Profile(req, analysis))]
    ELSE [table |-> commit(table, Profile(req, analysis)).val,
          ret   |-> Ret(analysis_response(req, analysis))]

\* the awaited call ends, raising or giving a response; analyze_* returns
\* and run_ai_analysis builds the Profile, commits and returns
CollaboratorResponds ==
    /\ pc = "awaiting"
    /\ \E resp \in Responses :
          /\ response' = Some(resp)
          /\ analysis_ret' = Some(analysis_of(request[1], resp))
          /\ profiles' = stored_and_returned(request[1],
                                             analysis_of(request[1], resp).val,
                                             profiles).table
          /\ http_ret' = Some(stored_and_returned(request[1],
                                                  analysis_of(request[1], resp).val,
                                                  profiles).ret)
    /\ pc' = "return"
    /\ UNCHANGED <<request, openai_calls>>
    /\ UNCHANGED <<assessment_data, lethality_ret, current_case, all_cases,
                   matches_ret, simVars, concurrentVars,
                   assessVars>>

NextAnalyze == RunAiAnalysis \/ CollaboratorResponds

SpecAnalyze == InitAnalyze /\ [][NextAnalyze]_vars

(***************************************************************************)
(* Properties of POST /ai/analyze and of the analyses, under SpecAnalyze   *)
(***************************************************************************)
\* analyze_* returned for the request
Analyzed == pc = "return" /\ analysis_ret # None

\* the keys the prompt asks the reply to hold
ExpectedKeys(analysis_type) ==
    IF analysis_type = "suspect_profile"
    THEN {"psychological_profile", "behavioral_patterns", "risk_factors",
          "warning_signs", "lethality_risk", "recommendations"}
    ELSE {"vulnerability_profile", "trauma_indicators", "risk_factors",
          "protective_factors", "safety_recommendations", "lethality_risk"}

\* the call gave a response whose content is a JSON object
IsJsonObject(resp) ==
    /\ ~Raised(resp)
    /\ resp.val.choices # << >>
    /\ resp.val.choices[1].content # None
    /\ ~Raised(json_loads(resp.val.choices[1].content[1]))
    /\ json_loads(resp.val.choices[1].content[1]).val.type = "dict"

\* the call gave a JSON object of the shape asked for
WellFormed(analysis_type, resp) ==
    /\ IsJsonObject(resp)
    /\ ExpectedKeys(analysis_type) \subseteq
          DOMAIN json_loads(resp.val.choices[1].content[1]).val.items

\* the fallback estimate for the request's suspect or victim
FallbackOf(req) ==
    IF req.analysis_type = "suspect_profile"
    THEN _generate_fallback_suspect_analysis(req.person[1])
    ELSE _generate_fallback_victim_analysis(req.person[1])

\* C14: whenever the call of the collaborator raises, or its response is
\* not parseable as JSON or is not a JSON object of the expected shape,
\* analyze_suspect_profile and analyze_victim_vulnerability return the
\* fallback estimate, and they never raise.
C14_FallbackOnFailure ==
    Analyzed =>
        /\ ~Raised(analysis_ret[1])
        /\ ~WellFormed(request[1].analysis_type, response[1])
              => analysis_ret[1] = Ret(FallbackOf(request[1]))

\* C15: the collaborator is called at most once per analysis request:
\* never before the request is accepted, exactly once by the time an
\* analysis is returned, and not again after a call that failed.
C15_AtMostOnce ==
    /\ openai_calls \in {0, 1}
    /\ pc = "call" => openai_calls = 0
    /\ pc = "awaiting" => openai_calls = 1
    /\ Analyzed => openai_calls = 1

\* a request whose call raised and that was answered by the fallback
C15_Witness ==
    /\ Analyzed
    /\ response = Some(Raise("APIError"))
    /\ analysis_ret[1] = Ret(FallbackOf(request[1]))
    /\ openai_calls = 1

\* the request is one of those the handler answers with 404 or 400
Rejected(req) ==
    \/ ~req.case_found
    \/ req.analysis_type \notin {"suspect_profile", "victim_profile"}
    \/ req.person = None

\* C22: a request that is rejected (unknown case: 404; suspect_profile
\* with no suspect, victim_profile with no victim, or any other analysis
\* type: 400) persists no Profile and does not call the collaborator, and
\* every other request persists exactly one Profile, whose profile_type is
\* the one of the requested analysis and whose confidence_score is the one
\* of the analysis returned; no Profile is persisted before the handler ends.
C22_RejectedOrPersisted ==
    /\ pc # "return" => profiles = << >>
    /\ pc = "return" =>
          IF Rejected(request[1])
          THEN /\ http_ret = Some(Raise(HTTPException(
                                 IF request[1].case_found THEN 400 ELSE 404)))
               /\ profiles = << >>
               /\ openai_calls = 0
               /\ response = None
          ELSE /\ Len(profiles) = 1
               /\ profiles[1].profile_type =
                     (IF request[1].analysis_type = "suspect_profile"
                      THEN "suspect" ELSE "victim")
               /\ profiles[1].confidence_score =
                     analysis_ret[1].val.confidence_score

\* the number b counted when the condition holds
Counted(condition, b) == IF condition THEN b ELSE 0

\* ten times the suspect estimate before the cap: base 5.0, +2.0 firearm
\* access, +1.5 substance abuse, +1.0 criminal history, +1.0 mental-health
\* history
SuspectTenths(p) ==
    50 + Counted(p.firearm_access = Some(TRUE), 20)
       + Counted(p.substance_abuse = Some(TRUE), 15)
       + Counted(p.criminal_history \notin {None, Some("")}, 10)
       + Counted(p.mental_health_history \notin {None, Some("")}, 10)

\* ten times the victim estimate before the cap: base 3.0, +2.0 financial
\* dependence, +1.5 children involved, +1.5 more than two prior reports
VictimTenths(p) ==
    30 + Counted(p.financial_dependence = Some(TRUE), 20)
       + Counted(p.children_involved = Some(TRUE), 15)
       + Counted(p.prior_dv_reports # None /\ p.prior_dv_reports[1] > 2, 15)

CappedTenths(t) == IF t > 100 THEN 100 ELSE t

\* C16: the fallback estimate has lethality_risk equal to the base value
\* plus the increments of the risk factors present, capped at 10, hence at
\* most 10 and at least the base; it always has the same keys and
\* confidence_score 0.6, lower than the 0.85 (suspect) and 0.82 (victim) set
\* on an analysis that comes from the collaborator.
C16_FallbackBounded ==
    Analyzed =>
        LET analysis == analysis_ret[1].val
            suspect  == request[1].analysis_type = "suspect_profile"
            person   == request[1].person[1]
        IN  IF IsJsonObject(response[1])
            THEN /\ analysis.confidence_score
                       = (IF suspect THEN R(85, 100) ELSE R(82, 100))
                 /\ RLt(R(6, 10), analysis.confidence_score)
            ELSE /\ DOMAIN analysis =
                       (IF suspect
                        THEN {"psychological_profile", "behavioral_patterns",
                              "risk_factors", "warning_signs", "lethality_risk",
                              "recommendations", "confidence_score"}
                        ELSE {"vulnerability_profile", "trauma_indicators",
                              "risk_factors", "protective_factors",
                              "safety_recommendations", "lethality_risk",
                              "confidence_score"})
                 /\ analysis.lethality_risk =
                       R(CappedTenths(IF suspect THEN SuspectTenths(person)
                                      ELSE VictimTenths(person)), 10)
                 /\ RLe(analysis.lethality_risk, R(10, 1))
                 /\ RGe(analysis.lethality_risk,
                        IF suspect THEN R(5, 1) ELSE R(3, 1))
                 /\ analysis.confidence_score = R(6, 10)

\* a fallback estimate for a suspect with all four risk factors: 10.5
\* before the cap
C16_Witness ==
    /\ Analyzed
    /\ ~IsJsonObject(response[1])
    /\ request[1].analysis_type = "suspect_profile"
    /\ SuspectTenths(request[1].person[1]) = 105
    /\ analysis_ret[1].val.lethality_risk = R(10, 1)

(***************************************************************************)
(* Concurrent calls of calculate_lethality_score and find_pattern_matches  *)
(* on the service get_ai_service returns (main.py 39-43).  Each call is a  *)
(* thread of its own; a step is one statement of get_ai_service, the entry *)
(* of the method, one iteration of its loop, or its return.  Two calls may *)
(* be given the same argument objects.                                     *)
(***************************************************************************)
MaxCalls == 2

CallIds == 1..MaxCalls

\* assessment_data of the concurrent scoring calls
ScoreArgs ==
    { MakeDict({"threats_to_kill", "firearm_access"}, {}, << >>),
      MakeDict(Indicators, {}, << >>) }

\* (current_case, all_cases) of the concurrent matching calls; the second
\* raises in its second iteration
MatchArgs ==
    { [current |-> ScenarioTarget,
       cases   |-> <<ScenarioCandidate, ScenarioTarget>>],
      [current |-> Case(6, Some("missing"), Some(""), Some(R(1700, 73)),
                        Some(<<"\t">>)),
       cases   |-> <<ScenarioTarget,
                     Case(5, Some("missing"), Some("NY"), Some(R(0, 1)),
                          Some(<<" ", " ">>))>>] }

\* line 12: an instance holds its client and nothing else, so that two
\* instances cannot be told apart
AIAnalysisService == [openai_client |-> "OpenAI"]

\* a call that has not started: at is its position, saw_none the outcome of
\* the test of main.py 41 while it is of use, i the iterations its loop has
\* made, matches its list, ret its result
NewCall(op, arg) ==
    [op |-> op, arg |-> arg, at |-> "start", saw_none |-> FALSE,
     i |-> 0, matches |-> Ret(<< >>), ret |-> None]

InitConcurrent ==
    /\ pc = "call"
    /\ ai_service = None
    /\ calls \in [CallIds -> {NewCall("score", a) : a \in ScoreArgs}
                             \cup {NewCall("match", a) : a \in MatchArgs}]
    /\ totals = [c \in CallIds |-> 0]
    /\ LethalityIdle
    /\ MatchIdle
    /\ SimIdle
    /\ AnalysisIdle
    /\ AssessIdle

\* total_score kept in one attribute of the shared instance
total_score_slot_shared(c) == 1

\* line 131: total_score is a local of the call's own frame
total_score_slot(c) == c

\* what every step of a concurrent call leaves alone
ConcurrentFrame ==
    UNCHANGED <<pc, assessment_data, lethality_ret, current_case, all_cases,
                matches_ret, simVars, analysisVars, assessVars>>

\* main.py 41: if ai_service is None
GetAiServiceTest ==
    /\ \E c \in CallIds :
          /\ calls[c].at = "start"
          /\ calls' = [calls EXCEPT ![c].at = "tested",
                                    ![c].saw_none = (ai_service = None)]
    /\ UNCHANGED <<ai_service, totals>>
    /\ ConcurrentFrame

\* main.py 42: ai_service = AIAnalysisService()
GetAiServiceConstruct ==
    /\ \E c \in CallIds :
          /\ calls[c].at = "tested"
          /\ calls[c].saw_none
          /\ ai_service' = Some(AIAnalysisService)
          /\ calls' = [calls EXCEPT ![c].at = "assigned", ![c].saw_none = FALSE]
    /\ UNCHANGED totals
    /\ ConcurrentFrame

\* main.py 43: return ai_service, the method then called on it
GetAiServiceReturn ==
    /\ \E c \in CallIds :
          /\ \/ calls[c].at = "assigned"
             \/ calls[c].at = "tested" /\ ~calls[c].saw_none
          /\ ai_service # None
          /\ calls' = [calls EXCEPT ![c].at = "entered"]
    /\ UNCHANGED <<ai_service, totals>>
    /\ ConcurrentFrame

\* lines 131-132: total_score = 0.0, the loop not begun
ScoreBegin ==
    /\ \E c \in CallIds :
          /\ calls[c].at = "entered"
          /\ calls[c].op = "score"
          /\ totals' = [totals EXCEPT ![total_score_slot(c)] = 0]
          /\ calls' = [calls EXCEPT ![c].at = "loop"]
    /\ UNCHANGED ai_service
    /\ ConcurrentFrame

\* lines 134-136: one iteration of the loop over risk_factors
ScoreIterate ==
    /\ \E c \in CallIds :
          /\ calls[c].at = "loop"
          /\ calls[c].op = "score"
          /\ calls[c].i < Len(risk_factors)
          /\ totals' =
                [totals EXCEPT ![total_score_slot(c)] =
                    IF DictGet(calls[c].arg, risk_factors[calls[c].i + 1][1], FALSE)
                    THEN @ + risk_factors[calls[c].i + 1][2]
                    ELSE @]
          /\ calls' = [calls EXCEPT ![c].i = @ + 1]
    /\ UNCHANGED ai_service
    /\ ConcurrentFrame

\* lines 138-149: the loop is over; normalise, classify, return
ScoreReturn ==
    /\ \E c \in CallIds :
          /\ calls[c].at = "loop"
          /\ calls[c].op = "score"
          /\ calls[c].i = Len(risk_factors)
          /\ calls' =
                [calls EXCEPT
                    ![c].at = "done",
                    ![c].ret =
                        Some([normalized_score |->
                                  normalized_score_of(totals[total_score_slot(c)]),
                              risk_level |->
                                  risk_level_of(normalized_score_of(
                                      totals[total_score_slot(c)]))])]
    /\ UNCHANGED <<ai_service, totals>>
    /\ ConcurrentFrame

\* lines 154-159: return [] for no candidates, else matches = []
MatchBegin ==
    /\ \E c \in CallIds :
          /\ calls[c].at = "entered"
          /\ calls[c].op = "match"
          /\ calls' = IF calls[c].arg.cases = << >>
                      THEN [calls EXCEPT ![c].at = "done",
                                         ![c].ret = Some(Ret(<< >>))]
                      ELSE [calls EXCEPT ![c].at = "loop",
                                         ![c].matches = Ret(<< >>)]
    /\ UNCHANGED <<ai_service, totals>>
    /\ ConcurrentFrame

\* the matches of call c after one more iteration of lines 160-173
NextMatches(call) ==
    Appended(call.matches,
             match_step(call.arg.current,
                        _extract_case_features(call.arg.current),
                        call.arg.cases[call.i + 1]))

\* lines 160-173: one iteration of the loop over all_cases; an exception
\* of line 165 ends the call
MatchIterate ==
    /\ \E c \in CallIds :
          /\ calls[c].at = "loop"
          /\ calls[c].op = "match"
          /\ calls[c].i < Len(calls[c].arg.cases)
          /\ calls' = IF Raised(NextMatches(calls[c]))
                      THEN [calls EXCEPT ![c].at = "done",
                                         ![c].ret = Some(NextMatches(calls[c]))]
                      ELSE [calls EXCEPT ![c].i = @ + 1,
                                         ![c].matches = NextMatches(calls[c])]
    /\ UNCHANGED <<ai_service, totals>>
    /\ ConcurrentFrame

\* line 175: the loop is over; sort, cut, return
MatchReturn ==
    /\ \E c \in CallIds :
          /\ calls[c].at = "loop"
          /\ calls[c].op = "match"
          /\ calls[c].i = Len(calls[c].arg.cases)
          /\ calls' = [calls EXCEPT ![c].at = "done",
                                    ![c].ret = Some(SortedTopTen(calls[c].matches))]
    /\ UNCHANGED <<ai_service, totals>>
    /\ ConcurrentFrame

NextConcurrent ==
    \/ GetAiServiceTest
    \/ GetAiServiceConstruct
    \/ GetAiServiceReturn
    \/ ScoreBegin
    \/ ScoreIterate
    \/ ScoreReturn
    \/ MatchBegin
    \/ MatchIterate
    \/ MatchReturn

SpecConcurrent == InitConcurrent /\ [][NextConcurrent]_vars

(***************************************************************************)
(* Properties of concurrent calls, under SpecConcurrent                    *)
(***************************************************************************)
\* what the call returns when it runs alone on its arguments
AloneResult(call) ==
    IF call.op = "score"
    THEN calculate_lethality_score(call.arg)
    ELSE find_pattern_matches(call.arg.current, call.arg.cases)

\* every call that has ended gave the result it gives alone
ResultsAsAlone ==
    \A c \in DOMAIN calls :
        calls[c].ret # None => calls[c].ret[1] = AloneResult(calls[c])

\* a step changes no call's arguments, and only the stepping call's own
\* position, locals and result
ArgumentsAndOthersKept ==
    /\ DOMAIN calls' = DOMAIN calls
    /\ \A c \in DOMAIN calls :
          /\ calls'[c].op = calls[c].op
          /\ calls'[c].arg = calls[c].arg
    /\ \A c, d \in DOMAIN calls :
          (c # d /\ calls'[c] # calls[c]) =>
              /\ calls'[d] = calls[d]
              /\ totals'[d] = totals[d]

\* C17: in every interleaving of concurrent calls of
\* calculate_lethality_score and find_pattern_matches on the shared service,
\* each call returns exactly what it returns when run alone on the same
\* arguments, and no step of a call changes its arguments or the locals,
\* position or result of another call.
C17_StatelessConcurrent ==
    []ResultsAsAlone /\ [][ArgumentsAndOthersKept]_vars

\* two calls in the middle of their loops at once: a matching call that has
\* made one iteration, a scoring call that has made some but not all
C17_Witness ==
    \E c, d \in DOMAIN calls :
        /\ calls[c].op = "score" /\ calls[c].at = "loop"
        /\ calls[c].i > 0 /\ calls[c].i < Len(risk_factors)
        /\ calls[d].op = "match" /\ calls[d].at = "loop" /\ calls[d].i = 1

(***************************************************************************)
(* POST /lethality-assessment (main.py, create_lethality_assessment).      *)
(* Requests are served one after another: the handler is a coroutine       *)
(* without an await, and its writes are one transaction.  A request names  *)
(* a case id, known or not, and carries the assessment dict.  No other     *)
(* handler writes risk_score or risk_level, so every case starts with both *)
(* null.                                                                   *)
(***************************************************************************)
MaxAssessments == 3

\* the ids of the rows of the cases table
KnownCaseIds == {1, 2}

\* an id no row of the cases table has
UnknownCaseId == 3

\* assessment dicts that score 0, 32.9, 56.2 and 100, and one that scores 0
\* with a key outside the vocabulary and an indicator set to False
AssessmentArgs ==
    { MakeDict({}, {}, << >>),
      MakeDict({"threats_to_kill", "weapon_threats", "firearm_access"}, {}, << >>),
      MakeDict({"threats_to_kill", "weapon_threats", "firearm_access",
                "increased_severity", "stalking", "separation_threats"}, {}, << >>),
      MakeDict(Indicators, {}, << >>),
      MakeDict({}, {"stalking"}, [Stalking |-> TRUE]) }

LethalityAssessmentCreate ==
    [case_id : KnownCaseIds \cup {UnknownCaseId}, assessment_data : AssessmentArgs]

\* the user get_current_user gives
current_user == [id |-> 1]

\* lines 327-352 and 359: "; ".join(recommendations)
recommendations_for(risk_level) ==
    CASE risk_level = "extreme" ->
            "Immediate law enforcement notification; Emergency safety planning; Consider emergency relocation; 24/7 safety monitoring"
      [] risk_level = "high" ->
            "Comprehensive safety planning; Law enforcement notification; Increased support services; Regular check-ins"
      [] risk_level = "moderate" ->
            "Safety planning; Resource connection; Regular monitoring"
      [] OTHER -> "Basic safety planning; Resource information"

\* lines 354-361, scored being what line 325 was given; id is the key the
\* INSERT gives the row
LethalityAssessment(id, req, scored) ==
    [id              |-> id,
     case_id         |-> req.case_id,
     assessment_data |-> StrOf(req.assessment_data),
     lethality_score |-> scored.normalized_score,
     risk_level      |-> scored.risk_level,
     recommendations |-> recommendations_for(scored.risk_level),
     created_by_id   |-> current_user.id]

\* line 363 alone: the score stored, the level left as it was
case_assessed_score_only(case, scored) ==
    [case EXCEPT !.risk_score = Some(scored.normalized_score)]

\* lines 363-364
case_assessed(case, scored) ==
    [case EXCEPT !.risk_score = Some(scored.normalized_score),
                 !.risk_level = Some(scored.risk_level)]

InitAssess ==
    /\ pc = "call"
    /\ \E req \in LethalityAssessmentCreate : lethality_request = Some(req)
    /\ db_cases = [c \in KnownCaseIds |->
                      [id |-> c, risk_score |-> None, risk_level |-> None]]
    /\ db_lethality_assessments = << >>
    /\ assessment_ret = None
    /\ LethalityIdle
    /\ MatchIdle
    /\ SimIdle
    /\ AnalysisIdle
    /\ ConcurrentIdle

\* create_lethality_assessment from entry to the 404 it raises, or to the
\* commit, the refresh and the return of the new row
CreateLethalityAssessment ==
    /\ pc = "call"
    /\ lethality_request # None
    /\ IF lethality_request[1].case_id \notin DOMAIN db_cases
       THEN /\ assessment_ret' = Some(Raise(HTTPException(404)))
            /\ UNCHANGED <<db_cases, db_lethality_assessments>>
       ELSE LET req == lethality_request[1]
                scored == calculate_lethality_score(req.assessment_data)
                assessment ==
                    LethalityAssessment(Len(db_lethality_assessments) + 1,
                                        req, scored)
            IN  /\ db_cases' =
                      [db_cases EXCEPT ![req.case_id] = case_assessed(@, scored)]
                /\ db_lethality_assessments' =
                      Append(db_lethality_assessments, assessment)
                /\ assessment_ret' = Some(Ret(assessment))
    /\ pc' = "return"
    /\ UNCHANGED <<lethality_request, assessment_data, lethality_ret,
                   current_case, all_cases, matches_ret, simVars, analysisVars,
                   concurrentVars>>

\* the next request arrives
PostLethalityAssessment ==
    /\ pc = "return"
    /\ lethality_request # None
    /\ Len(db_lethality_assessments) < MaxAssessments
    /\ \E req \in LethalityAssessmentCreate : lethality_request' = Some(req)
    /\ assessment_ret' = None
    /\ pc' = "call"
    /\ UNCHANGED <<db_cases, db_lethality_assessments, assessment_data,
                   lethality_ret, current_case, all_cases, matches_ret, simVars,
                   analysisVars, concurrentVars>>

NextAssess == CreateLethalityAssessment \/ PostLethalityAssessment

SpecAssess == InitAssess /\ [][NextAssess]_vars

(***************************************************************************)
(* Properties of sequences of POST /lethality-assessment, under SpecAssess *)
(***************************************************************************)
\* the positions of the assessments created for a case
AssessmentsOf(c) ==
    {i \in DOMAIN db_lethality_assessments :
        db_lethality_assessments[i].case_id = c}

\* the assessment created last for a case that has one
LatestOf(c) ==
    db_lethality_assessments[CHOOSE i \in AssessmentsOf(c) :
                                 \A j \in AssessmentsOf(c) : j <= i]

\* the level of a score: low below 25, moderate from 25 and below 50, high
\* from 50 and below 75, extreme from 75
ThresholdLevel(score) ==
    IF RLt(score, R(25, 1)) THEN "low"
    ELSE IF RLt(score, R(50, 1)) THEN "moderate"
    ELSE IF RLt(score, R(75, 1)) THEN "high"
    ELSE "extreme"

\* every case is as its latest assessment left it, or unassessed and null
CasesFollowAssessments ==
    /\ \A i \in DOMAIN db_lethality_assessments :
          db_lethality_assessments[i].case_id \in DOMAIN db_cases
    /\ \A c \in DOMAIN db_cases :
          IF AssessmentsOf(c) = {}
          THEN db_cases[c].risk_score = None /\ db_cases[c].risk_level = None
          ELSE /\ db_cases[c].risk_score = Some(LatestOf(c).lethality_score)
               /\ db_cases[c].risk_level = Some(LatestOf(c).risk_level)
               /\ db_cases[c].risk_level =
                     Some(ThresholdLevel(db_cases[c].risk_score[1]))

\* a request for an unknown case is answered 404, and a step that answers
\* 404 changes no case and creates no assessment; any other step that
\* answers creates one assessment, for the case requested, and changes no
\* other case
UnknownCaseChangesNothing ==
    (pc = "call" /\ pc' = "return") =>
        IF lethality_request[1].case_id \notin KnownCaseIds
        THEN /\ assessment_ret' = Some(Raise(HTTPException(404)))
             /\ db_cases' = db_cases
             /\ db_lethality_assessments' = db_lethality_assessments
        ELSE /\ ~Raised(assessment_ret'[1])
             /\ Len(db_lethality_assessments') = Len(db_lethality_assessments) + 1
             /\ SubSeq(db_lethality_assessments', 1, Len(db_lethality_assessments))
                   = db_lethality_assessments
             /\ LatestOf(lethality_request[1].case_id)' = assessment_ret'[1].val
             /\ \A c \in KnownCaseIds \ {lethality_request[1].case_id} :
                   db_cases'[c] = db_cases[c]

\* C21: after any sequence of POST /lethality-assessment requests, every
\* case's stored risk_level is the threshold classification of its stored
\* risk_score, and both are the score and level of the assessment created
\* last for that case; a case that was never assessed has a null risk_score
\* and risk_level; a request for an unknown case is answered 404, changes no
\* case and creates no assessment.
C21_CasesFollowLatest ==
    []CasesFollowAssessments /\ [][UnknownCaseChangesNothing]_vars

\* case 1 assessed twice, first extreme and then low, case 2 never, and the
\* last request, for an unknown case, answered 404
C21_Witness ==
    /\ pc = "return"
    /\ assessment_ret = Some(Raise(HTTPException(404)))
    /\ Len(db_lethality_assessments) = 2
    /\ db_lethality_assessments[1].case_id = 1
    /\ db_lethality_assessments[1].risk_level = "extreme"
    /\ db_lethality_assessments[2].case_id = 1
    /\ db_cases[1].risk_level = Some("low")
    /\ db_cases[1].risk_score = Some(R(0, 1))
    /\ db_cases[2].risk_score = None

=============================================================================
